---- MODULE Spec2Model ----
(***************************************************************************)
(* Review classification and span highlighting of TikTokJamFest:           *)
(*   src/utils/highlight.py    default_spans, render_html_with_spans       *)
(*   src/models/local_infer.py ReviewClassifier, infer_batch               *)
(*   src/app.py                business_mode, live_search_mode,            *)
(*                             process_reviews_by_place                    *)
(*                                                                         *)
(* A text is a sequence of one-character strings.  Offsets are the         *)
(* 0-based offsets of Python, so the character at offset i is text[i+1].   *)
(* Confidence scores are fixed-point numbers, One standing for 1.0.        *)
(***************************************************************************)
EXTENDS Integers, Sequences, FiniteSets, TLC

----------------------------------------------------------------------------
(* Bounds of the model. *)

\* a text is the concatenation of at most MaxFrags fragments
MaxFrags == 2
\* a batch of texts of BatchTexts has at most MaxBatch elements
MaxBatch == 2
\* random.uniform(a, b) is sampled at a, b and DrawSteps - 1 points between
DrawSteps == 1
\* render_html_with_spans is given at most MaxSpans spans
MaxSpans == 2
\* a text rendered without spans is the concatenation of at most
\* MaxEscapeFrags fragments
MaxEscapeFrags == 2
\* a search returns at most MaxPlaces places (max_places=5 in the code)
MaxPlaces == 3

----------------------------------------------------------------------------
(* Characters: str.lower, str.isupper, str.split and the classes \s, \w    *)
(* and \b of re, on ASCII.                                                 *)

LowerLetters ==
  <<"a","b","c","d","e","f","g","h","i","j","k","l","m",
    "n","o","p","q","r","s","t","u","v","w","x","y","z">>

UpperLetters ==
  <<"A","B","C","D","E","F","G","H","I","J","K","L","M",
    "N","O","P","Q","R","S","T","U","V","W","X","Y","Z">>

Digits == {"0","1","2","3","4","5","6","7","8","9"}

LowerSet == {LowerLetters[k] : k \in 1..26}

UpperSet == {UpperLetters[k] : k \in 1..26}

\* the lowercase letter of each uppercase letter
LowerOf == [c \in UpperSet |-> LowerLetters[CHOOSE k \in 1..26 : UpperLetters[k] = c]]

WordChars == LowerSet \cup UpperSet \cup Digits \cup {"_"}

IsLowerChar(c) == c \in LowerSet

IsUpperChar(c) == c \in UpperSet

\* the class \s of re, and the separators of str.split()
IsSpace(c) == c \in {" ", "\t", "\n", "\r", "\f"}

\* the class \w of re
IsWordChar(c) == c \in WordChars

ToLower(c) == IF IsUpperChar(c) THEN LowerOf[c] ELSE c

\* text.lower()
Lower(text) == [k \in 1..Len(text) |-> ToLower(text[k])]

\* IsUpper asking every character to be an uppercase letter
IsUpper_LettersOnly(text) ==
  /\ text # <<>>
  /\ \A k \in 1..Len(text) : IsUpperChar(text[k])

\* text.isupper(): no lowercase cased character and at least one cased one
IsUpper(text) ==
  /\ \A k \in 1..Len(text) : ~IsLowerChar(text[k])
  /\ \E k \in 1..Len(text) : IsUpperChar(text[k])

\* text[start:end]
Slice(text, start, end) == [k \in 1..(end - start) |-> text[start + k]]

\* the literal lit occurs in text at offset i
StartsWith(text, i, lit) ==
  /\ i + Len(lit) <= Len(text)
  /\ \A k \in 1..Len(lit) : text[i + k] = lit[k]

\* the same under re.IGNORECASE
StartsWithI(text, i, lit) ==
  /\ i + Len(lit) <= Len(text)
  /\ \A k \in 1..Len(lit) : ToLower(text[i + k]) = ToLower(lit[k])

\* lit in text
Contains(text, lit) == \E i \in 0..(Len(text) - Len(lit)) : StartsWith(text, i, lit)

\* \b at offset i
WordBoundary(text, i) ==
  (i > 0 /\ IsWordChar(text[i])) # (i < Len(text) /\ IsWordChar(text[i + 1]))

\* len(text.split()): the number of maximal runs of non-whitespace
WordCount(text) ==
  Cardinality({k \in 1..Len(text) :
                 /\ ~IsSpace(text[k])
                 /\ (k = 1 \/ IsSpace(text[k - 1]))})

----------------------------------------------------------------------------
(* Regular expressions.  A pattern is a record: [re |-> "url"] is          *)
(*   https?://[^\s]+|www\.[^\s]+                                           *)
(* and [re |-> "words", alts |-> <<a1, ..., an>>] is                       *)
(*   \b(a1|...|an)\b  with re.IGNORECASE.                                  *)

\* the end of the greedy run [^\s]* that starts at offset j
RECURSIVE NonSpaceRunEnd(_, _)
NonSpaceRunEnd(text, j) ==
  IF j < Len(text) /\ ~IsSpace(text[j + 1])
  THEN NonSpaceRunEnd(text, j + 1)
  ELSE j

\* PrefixRunEnd with the end of the match one past the run
PrefixRunEnd_PastEnd(text, i, lit) ==
  IF StartsWith(text, i, lit) /\ i + Len(lit) < Len(text)
     /\ ~IsSpace(text[i + Len(lit) + 1])
  THEN NonSpaceRunEnd(text, i + Len(lit)) + 1
  ELSE -1

\* lit[^\s]+ anchored at offset i: the end of the match, or -1
PrefixRunEnd(text, i, lit) ==
  IF StartsWith(text, i, lit) /\ i + Len(lit) < Len(text)
     /\ ~IsSpace(text[i + Len(lit) + 1])
  THEN NonSpaceRunEnd(text, i + Len(lit))
  ELSE -1

LitHttps == <<"h","t","t","p","s",":","/","/">>

LitHttp == <<"h","t","t","p",":","/","/">>

LitWww == <<"w","w","w",".">>

\* UrlMatchEnd without the alternative www\.[^\s]+
UrlMatchEnd_NoWww(text, i) ==
  IF PrefixRunEnd(text, i, LitHttps) >= 0 THEN PrefixRunEnd(text, i, LitHttps)
  ELSE PrefixRunEnd(text, i, LitHttp)

\* the url pattern anchored at offset i: the end of the match, or -1
UrlMatchEnd(text, i) ==
  IF PrefixRunEnd(text, i, LitHttps) >= 0 THEN PrefixRunEnd(text, i, LitHttps)
  ELSE IF PrefixRunEnd(text, i, LitHttp) >= 0 THEN PrefixRunEnd(text, i, LitHttp)
  ELSE PrefixRunEnd(text, i, LitWww)

\* \b(a1|...|an)\b anchored at offset i: the alternatives are tried in
\* order and the first that is followed by \b gives the end of the match
RECURSIVE WordsMatchEnd(_, _, _)
WordsMatchEnd(alts, text, i) ==
  IF alts = <<>> \/ ~WordBoundary(text, i) THEN -1
  ELSE IF /\ StartsWithI(text, i, Head(alts))
          /\ WordBoundary(text, i + Len(Head(alts)))
       THEN i + Len(Head(alts))
       ELSE WordsMatchEnd(Tail(alts), text, i)

MatchEnd(pat, text, i) ==
  IF pat.re = "url" THEN UrlMatchEnd(text, i) ELSE WordsMatchEnd(pat.alts, text, i)

\* the matches <<start, end>> of pat in text[p:], leftmost first and
\* non-overlapping: the scan resumes where a match ended
RECURSIVE Scan(_, _, _)
Scan(pat, text, p) ==
  IF p > Len(text) THEN <<>>
  ELSE IF MatchEnd(pat, text, p) >= 0
       THEN <<<<p, MatchEnd(pat, text, p)>>>> \o
            Scan(pat, text, IF MatchEnd(pat, text, p) > p
                            THEN MatchEnd(pat, text, p) ELSE p + 1)
       ELSE Scan(pat, text, p + 1)

\* pattern.finditer(text)
finditer(pat, text) == Scan(pat, text, 0)

\* pattern.search(text) is not None
search(pat, text) == finditer(pat, text) # <<>>

\* [kind, m.start(), m.end()] for each match m
Tagged(kind, matches) == [k \in 1..Len(matches) |-> <<kind, matches[k][1], matches[k][2]>>]

url_pattern == [re |-> "url"]

\* re.compile(rf'\b{re.escape(word)}\b', re.IGNORECASE)
WordPattern(word) == [re |-> "words", alts |-> <<word>>]

\* the spans of every word of a vocabulary, word after word
RECURSIVE PromoSpans(_, _)
PromoSpans(words, text) ==
  IF words = <<>> THEN <<>>
  ELSE Tagged("promo", finditer(WordPattern(Head(words)), text)) \o
       PromoSpans(Tail(words), text)

\* list.sort(key=lambda x: x[1]): ascending by start, stable on ties
RECURSIVE InsertByStart(_, _)
InsertByStart(sorted, span) ==
  IF sorted = <<>> THEN <<span>>
  ELSE IF Head(sorted)[2] <= span[2]
       THEN <<Head(sorted)>> \o InsertByStart(Tail(sorted), span)
       ELSE <<span>> \o sorted

RECURSIVE SortByStart(_)
SortByStart(spans) ==
  IF spans = <<>> THEN <<>>
  ELSE InsertByStart(SortByStart(SubSeq(spans, 1, Len(spans) - 1)), spans[Len(spans)])

----------------------------------------------------------------------------
(* Literals of the source, as texts. *)

WDiscount == <<"d","i","s","c","o","u","n","t">>

WPromo == <<"p","r","o","m","o">>

WSale == <<"s","a","l","e">>

WCoupon == <<"c","o","u","p","o","n">>

WDeal == <<"d","e","a","l">>

WOffer == <<"o","f","f","e","r">>

WFree == <<"f","r","e","e">>

WVisitOurWebsite == <<"v","i","s","i","t"," ","o","u","r"," ","w","e","b","s","i","t","e">>

PNeverBeen == <<"n","e","v","e","r"," ","b","e","e","n">>

PNotVisited == <<"n","o","t"," ","v","i","s","i","t","e","d">>

PHaventBeenApos == <<"h","a","v","e","n","'","t"," ","b","e","e","n">>

PHaventBeen == <<"h","a","v","e","n","t"," ","b","e","e","n">>

LitBangs == <<"!","!","!","!">>

----------------------------------------------------------------------------
(* src/utils/highlight.py *)

\* r'\b(never been|not visited|haven\'t been|havent been)\b', re.IGNORECASE
novisit_pattern ==
  [re |-> "words", alts |-> <<PNeverBeen, PNotVisited, PHaventBeenApos, PHaventBeen>>]

\* promo_words of default_spans
detector_promo_words == <<WDiscount, WPromo, WSale, WCoupon, WDeal>>

\* the spans of default_spans as appended, before the sort
DetectedSpans(text) ==
  Tagged("url", finditer(url_pattern, text)) \o
  Tagged("novisit", finditer(novisit_pattern, text)) \o
  PromoSpans(detector_promo_words, text)

\* default_spans without the final sort
default_spans_Unsorted(text) == DetectedSpans(text)

default_spans(text) == SortByStart(DetectedSpans(text))

\* s.replace(c, rep) for a character c
RECURSIVE Replace(_, _, _)
Replace(s, c, rep) ==
  IF s = <<>> THEN <<>>
  ELSE (IF Head(s) = c THEN rep ELSE <<Head(s)>>) \o Replace(Tail(s), c, rep)

EntAmp == <<"&","a","m","p",";">>

EntLt == <<"&","l","t",";">>

EntGt == <<"&","g","t",";">>

EntQuot == <<"&","q","u","o","t",";">>

EntApos == <<"&","#","x","2","7",";">>

\* HtmlEscape replacing '&' after the other characters
HtmlEscape_AmpLast(s) ==
  Replace(Replace(Replace(Replace(Replace(s, "<", EntLt), ">", EntGt),
                          "\"", EntQuot), "'", EntApos), "&", EntAmp)

\* html.escape(s): '&' is replaced first, then '<', '>', '"' and "'"
HtmlEscape(s) ==
  Replace(Replace(Replace(Replace(Replace(s, "&", EntAmp), "<", EntLt),
                          ">", EntGt), "\"", EntQuot), "'", EntApos)

\* the table of the colour of each span type
span_colors == [url |-> "#fde68a", novisit |-> "#fecaca", promo |-> "#bbf7d0"]

\* span_colors.get(span_type, '#f0f0f0')
SpanColor(span_type) ==
  IF span_type \in DOMAIN span_colors THEN span_colors[span_type] ELSE "#f0f0f0"

\* The string render_html_with_spans returns is kept as the list of its
\* pieces: one element for each character of escaped text and one element
\* for each tag.
OpenTag(color) ==
  "<span style=\"background-color: " \o color \o
  "; padding: 1px 2px; border-radius: 2px;\">"

CloseTag == "</span>"

\* the loop over sorted_spans from the cursor last_pos on, and the text
\* that remains after the last span
RECURSIVE RenderFrom(_, _, _)
RenderFrom(text, sorted_spans, last_pos) ==
  IF sorted_spans = <<>>
  THEN IF last_pos < Len(text)
       THEN HtmlEscape(Slice(text, last_pos, Len(text)))
       ELSE <<>>
  ELSE LET span_type == Head(sorted_spans)[1]
           start == Head(sorted_spans)[2]
           end == Head(sorted_spans)[3]
       IN  (IF start > last_pos
            THEN HtmlEscape(Slice(text, last_pos, start))
            ELSE <<>>) \o
           <<OpenTag(SpanColor(span_type))>> \o
           HtmlEscape(Slice(text, start, end)) \o
           <<CloseTag>> \o
           RenderFrom(text, Tail(sorted_spans), end)

\* render_html_with_spans walking the spans in the order given
render_html_with_spans_Unsorted(text, spans) ==
  IF spans = <<>> THEN HtmlEscape(text) ELSE RenderFrom(text, spans, 0)

render_html_with_spans(text, spans) ==
  IF spans = <<>> THEN HtmlEscape(text)
  ELSE RenderFrom(text, SortByStart(spans), 0)

----------------------------------------------------------------------------
(* src/models/local_infer.py *)

categories == <<"valid", "ad", "irrelevant", "rant">>

\* self.promo_words of ReviewClassifier
promo_words ==
  <<WDiscount, WCoupon, WPromo, WSale, WDeal, WOffer, WFree, WVisitOurWebsite>>

\* never_pattern with the alternatives of the detector
never_pattern_WithNotVisited ==
  [re |-> "words", alts |-> <<PNeverBeen, PNotVisited, PHaventBeenApos, PHaventBeen>>]

\* r'\b(never been|haven\'t been|havent been)\b', re.IGNORECASE
never_pattern ==
  [re |-> "words", alts |-> <<PNeverBeen, PHaventBeenApos, PHaventBeen>>]

\* _find_spans with the phrases found before the promo words
_find_spans_NeverFirst(text) ==
  Tagged("url", finditer(url_pattern, text)) \o
  Tagged("irrelevant", finditer(never_pattern, text)) \o
  PromoSpans(promo_words, text)

_find_spans(text) ==
  Tagged("url", finditer(url_pattern, text)) \o
  PromoSpans(promo_words, text) \o
  Tagged("irrelevant", finditer(never_pattern, text))

\* _get_violations without the word count of the 'irrelevant' case
_get_violations_NoShort(label, text) ==
  IF label = "ad" THEN
    (IF \E k \in 1..Len(promo_words) : Contains(Lower(text), promo_words[k])
     THEN <<"Contains promotional content">> ELSE <<>>) \o
    (IF search(url_pattern, text) THEN <<"Contains external links">> ELSE <<>>)
  ELSE IF label = "irrelevant" THEN
    (IF Contains(Lower(text), PNeverBeen)
     THEN <<"Review from non-visitor">> ELSE <<>>)
  ELSE IF label = "rant" THEN
    (IF Contains(text, LitBangs) THEN <<"Excessive punctuation">> ELSE <<>>) \o
    (IF IsUpper(text) THEN <<"All caps text">> ELSE <<>>)
  ELSE <<>>

\* _get_violations with the two checks of the 'ad' case in the other order
_get_violations_LinksFirst(label, text) ==
  IF label = "ad" THEN
    (IF search(url_pattern, text) THEN <<"Contains external links">> ELSE <<>>) \o
    (IF \E k \in 1..Len(promo_words) : Contains(Lower(text), promo_words[k])
     THEN <<"Contains promotional content">> ELSE <<>>)
  ELSE IF label = "irrelevant" THEN
    (IF Contains(Lower(text), PNeverBeen)
     THEN <<"Review from non-visitor">> ELSE <<>>) \o
    (IF WordCount(text) < 5 THEN <<"Insufficient content">> ELSE <<>>)
  ELSE IF label = "rant" THEN
    (IF Contains(text, LitBangs) THEN <<"Excessive punctuation">> ELSE <<>>) \o
    (IF IsUpper(text) THEN <<"All caps text">> ELSE <<>>)
  ELSE <<>>

\* the violation reasons of a label, each found by scanning the text again
_get_violations(label, text) ==
  IF label = "ad" THEN
    (IF \E k \in 1..Len(promo_words) : Contains(Lower(text), promo_words[k])
     THEN <<"Contains promotional content">> ELSE <<>>) \o
    (IF search(url_pattern, text) THEN <<"Contains external links">> ELSE <<>>)
  ELSE IF label = "irrelevant" THEN
    (IF Contains(Lower(text), PNeverBeen)
     THEN <<"Review from non-visitor">> ELSE <<>>) \o
    (IF WordCount(text) < 5 THEN <<"Insufficient content">> ELSE <<>>)
  ELSE IF label = "rant" THEN
    (IF Contains(text, LitBangs) THEN <<"Excessive punctuation">> ELSE <<>>) \o
    (IF IsUpper(text) THEN <<"All caps text">> ELSE <<>>)
  ELSE <<>>

\* 1.0
One == 100000

\* random.uniform(a, b), sampled at point k of 0..DrawSteps
Uniform(a, b, k) == a + ((b - a) * k) \div DrawSteps

\* Branch with the 'never been' rule tried before the 'ad' rule
Branch_NeverBeenFirst(text) ==
  IF Contains(Lower(text), PNeverBeen) THEN 2
  ELSE IF Contains(Lower(text), WVisitOurWebsite) \/ search(url_pattern, text) THEN 1
  ELSE IF WordCount(text) < 5 THEN 3
  ELSE IF Contains(text, LitBangs) \/ IsUpper(text) THEN 4
  ELSE 5

\* Branch with the short-text rule at fewer than 4 words
Branch_ShortBelowFour(text) ==
  IF Contains(Lower(text), WVisitOurWebsite) \/ search(url_pattern, text) THEN 1
  ELSE IF Contains(Lower(text), PNeverBeen) THEN 2
  ELSE IF WordCount(text) < 4 THEN 3
  ELSE IF Contains(text, LitBangs) \/ IsUpper(text) THEN 4
  ELSE 5

\* the rule of the cascade that decides the label, first match wins
Branch(text) ==
  IF Contains(Lower(text), WVisitOurWebsite) \/ search(url_pattern, text) THEN 1
  ELSE IF Contains(Lower(text), PNeverBeen) THEN 2
  ELSE IF WordCount(text) < 5 THEN 3
  ELSE IF Contains(text, LitBangs) \/ IsUpper(text) THEN 4
  ELSE 5

\* label of each rule
BranchLabel(branch) ==
  CASE branch = 1 -> "ad"
    [] branch = 2 -> "irrelevant"
    [] branch = 3 -> "irrelevant"
    [] branch = 4 -> "rant"
    [] branch = 5 -> "valid"

\* BaseConfidence with the short-text rule at the rate of the 'never been' rule
BaseConfidence_ShortAsNeverBeen(branch, u) ==
  CASE branch = 1 -> (85 * One) \div 100
    [] branch = 2 -> (78 * One) \div 100
    [] branch = 3 -> (78 * One) \div 100
    [] branch = 4 -> (72 * One) \div 100
    [] branch = 5 -> Uniform((60 * One) \div 100, (95 * One) \div 100, u)

\* base_confidence of each rule, u being the draw of the 'valid' rule
BaseConfidence(branch, u) ==
  CASE branch = 1 -> (85 * One) \div 100
    [] branch = 2 -> (78 * One) \div 100
    [] branch = 3 -> (65 * One) \div 100
    [] branch = 4 -> (72 * One) \div 100
    [] branch = 5 -> Uniform((60 * One) \div 100, (95 * One) \div 100, u)

\* CatScore drawing up to the whole of remaining_confidence
CatScore_UpToRemaining(remaining, u) == Uniform(One \div 100, remaining, u)

\* random.uniform(0.01, remaining_confidence * 0.6)
CatScore(remaining, u) == Uniform(One \div 100, (remaining * 6) \div 10, u)

\* Scores with remaining_confidence starting at 1.0 instead of 1.0 - base
Scores_FullRemaining(label, base, u1, u2) ==
  LET other_categories == SelectSeq(categories, LAMBDA cat : cat # label)
      s1 == CatScore(One, u1)
      s2 == CatScore(One - s1, u2)
  IN  [cat \in {categories[k] : k \in 1..Len(categories)} |->
         IF cat = label THEN base
         ELSE IF cat = other_categories[1] THEN s1
         ELSE IF cat = other_categories[2] THEN s2
         ELSE One - s1 - s2]

\* the confidence scores of all categories: the label gets base, the
\* first two other categories a draw each, the last one what remains
Scores(label, base, u1, u2) ==
  LET other_categories == SelectSeq(categories, LAMBDA cat : cat # label)
      s1 == CatScore(One - base, u1)
      s2 == CatScore(One - base - s1, u2)
  IN  [cat \in {categories[k] : k \in 1..Len(categories)} |->
         IF cat = label THEN base
         ELSE IF cat = other_categories[1] THEN s1
         ELSE IF cat = other_categories[2] THEN s2
         ELSE One - base - s1 - s2]

\* the draws of one call of classify_review
Draws == (0..DrawSteps) \X (0..DrawSteps) \X (0..DrawSteps)

\* classify_review(text): the records it returns, one for each outcome of
\* the random draws
classify_review(text) ==
  LET branch == Branch(text)
      label == BranchLabel(branch)
      violations == _get_violations(label, text)
      found == _find_spans(text)
  IN  {[label      |-> label,
        scores     |-> Scores(label, BaseConfidence(branch, u[1]), u[2], u[3]),
        violations |-> violations,
        spans      |-> found] : u \in Draws}

\* the table of scores of infer_batch, in units of One / 100
ScoreTable(ad, valid, irrelevant, rant) ==
  [cat \in {"valid", "ad", "irrelevant", "rant"} |->
     (One \div 100) * (CASE cat = "ad" -> ad
                         [] cat = "valid" -> valid
                         [] cat = "irrelevant" -> irrelevant
                         [] cat = "rant" -> rant)]

HasKind(spans, kind) == \E k \in 1..Len(spans) : spans[k][1] = kind

\* infer_one labelling a non-visitor text 'irrelevant'
infer_one_NovisitIrrelevant(text) ==
  LET spans == default_spans(text)
  IN  IF HasKind(spans, "url") \/ HasKind(spans, "promo")
      THEN [label |-> "ad", scores |-> ScoreTable(90, 5, 3, 2),
            violations |-> <<"No Advertisement">>, spans |-> spans]
      ELSE IF HasKind(spans, "novisit")
      THEN [label |-> "irrelevant", scores |-> ScoreTable(2, 8, 85, 5),
            violations |-> <<"No Rant Without Visit">>, spans |-> spans]
      ELSE [label |-> "valid", scores |-> ScoreTable(5, 88, 4, 3),
            violations |-> <<>>, spans |-> spans]

\* one iteration of the loop of infer_batch: the record appended for text
infer_one(text) ==
  LET spans == default_spans(text)
  IN  IF HasKind(spans, "url") \/ HasKind(spans, "promo")
      THEN [label |-> "ad", scores |-> ScoreTable(90, 5, 3, 2),
            violations |-> <<"No Advertisement">>, spans |-> spans]
      ELSE IF HasKind(spans, "novisit")
      THEN [label |-> "rant", scores |-> ScoreTable(2, 8, 5, 85),
            violations |-> <<"No Rant Without Visit">>, spans |-> spans]
      ELSE [label |-> "valid", scores |-> ScoreTable(5, 88, 4, 3),
            violations |-> <<>>, spans |-> spans]

----------------------------------------------------------------------------
(* src/app.py: the columns business_mode and process_reviews_by_place      *)
(* merge into the DataFrame of the reviews, and what they show of it.      *)

\* infer_batch(texts): the list of the records of its loop
infer_batch(inputs) == [k \in 1..Len(inputs) |-> infer_one(inputs[k])]

\* cached_inference(texts): st.cache_data returns what infer_batch returned
cached_inference(inputs) == infer_batch(inputs)

\* max(pred['scores'].values())
MaxScore(scores) ==
  CHOOSE v \in {scores[cat] : cat \in DOMAIN scores} :
    \A cat \in DOMAIN scores : scores[cat] <= v

\* is_violation with the threshold at 0.9
is_violation_Threshold90(pred) ==
  /\ pred.label \in {"ad", "irrelevant", "rant"}
  /\ MaxScore(pred.scores) >= (90 * One) \div 100

\* pred['label'] in ['ad', 'irrelevant', 'rant'] and
\* max(pred['scores'].values()) >= 0.6
is_violation(pred) ==
  /\ pred.label \in {"ad", "irrelevant", "rant"}
  /\ MaxScore(pred.scores) >= (60 * One) \div 100

\* the columns top_conf and is_violation
MergedColumns(predictions) ==
  [top_conf     |-> [k \in 1..Len(predictions) |-> MaxScore(predictions[k].scores)],
   is_violation |-> [k \in 1..Len(predictions) |-> is_violation(predictions[k])]]

\* the rows of the DataFrame in their order
Rows(predictions) == [k \in 1..Len(predictions) |-> k]

\* filtered_df: the rows the radio 'Show:' keeps; the search box is empty
FilteredRows(predictions, columns, choice) ==
  IF choice = "Valid only"
  THEN SelectSeq(Rows(predictions), LAMBDA k : predictions[k].label = "valid")
  ELSE IF choice = "Violations only"
  THEN SelectSeq(Rows(predictions), LAMBDA k : columns.is_violation[k])
  ELSE Rows(predictions)

\* rows.head(n)
FirstRows(rows, n) == SubSeq(rows, 1, IF Len(rows) < n THEN Len(rows) ELSE n)

\* the rows of the feed: all of filtered_df in business_mode, its first 10
\* in process_reviews_by_place
FeedRows(mode, predictions, columns, choice) ==
  IF mode = "business_mode"
  THEN FilteredRows(predictions, columns, choice)
  ELSE FirstRows(FilteredRows(predictions, columns, choice), 10)

\* the metrics Total Reviews, Valid Reviews and Flagged Reviews
Metrics(predictions, columns) ==
  [total   |-> Len(predictions),
   valid   |-> Cardinality({k \in 1..Len(predictions) : predictions[k].label = "valid"}),
   flagged |-> Cardinality({k \in 1..Len(predictions) : columns.is_violation[k]})]

----------------------------------------------------------------------------
(* Inputs. *)

Fragments ==
  { <<" ">>,
    <<"\t">>,
    <<"w","w","w",".","a",".">>,
    <<"h","t","t","p",":","/","/">>,
    <<"h","t","t","p","s",":","/","/">>,
    <<"d","e","a","l"," ">>,
    <<"f","r","e","e">>,
    <<"n","e","v","e","r"," ","b","e","e","n">>,
    <<"n","o","t"," ","v","i","s","i","t","e","d"," ">>,
    <<"h","a","v","e","n","'","t"," ","b","e","e","n">>,
    <<"V","i","s","i","t"," ","O","u","r"," ","W","e","b","s","i","t","e">>,
    <<"!","!","!","!">>,
    <<"A"," ","B"," ","C"," ","D"," ">>,
    <<"D","E","A","L">> }

\* the concatenations of at most n fragments
RECURSIVE TextsUpTo(_)
TextsUpTo(n) ==
  IF n = 0 THEN {<<>>}
  ELSE TextsUpTo(n - 1) \cup {t \o f : t \in TextsUpTo(n - 1), f \in Fragments}

\* a review with a promotional phrase and a URL:
\*   'Visit our website www.promo.com for deals!'
Scenarios ==
  { <<"V","i","s","i","t"," ",
       "o","u","r"," ",
       "w","e","b","s","i","t","e"," ",
       "w","w","w",".","p","r","o","m","o",".","c","o","m"," ",
       "f","o","r"," ",
       "d","e","a","l","s","!">> }

Texts == TextsUpTo(MaxFrags) \cup Scenarios

\* the texts of a batch of several: the empty string, a URL and a
\* non-visitor phrase
BatchTexts ==
  { <<>>,
    <<"w","w","w",".","a",".">>,
    <<"n","e","v","e","r"," ","b","e","e","n">> }

\* a batch of at most one text
Singles == {<<>>} \cup {<<t>> : t \in Texts}

\* a batch of up to MaxBatch texts of BatchTexts
Batches == UNION {[1..n -> BatchTexts] : n \in 0..MaxBatch}

\* pieces of the texts rendered without spans: the characters html.escape
\* replaces, and pieces of character references
EscapeFragments ==
  { <<"&">>,
    <<"<">>,
    <<">">>,
    <<"\"">>,
    <<"'">>,
    <<"z">>,
    <<";">>,
    <<"a","m","p",";">>,
    <<"l","t">>,
    <<"q","u","o","t",";">>,
    <<"#","x","2","7",";">>,
    <<"#","3","9">> }

RECURSIVE EscapeTextsUpTo(_)
EscapeTextsUpTo(n) ==
  IF n = 0 THEN {<<>>}
  ELSE EscapeTextsUpTo(n - 1) \cup
       {t \o f : t \in EscapeTextsUpTo(n - 1), f \in EscapeFragments}

EscapeTexts == EscapeTextsUpTo(MaxEscapeFrags)

\* the texts rendered with spans
SpanTexts ==
  { <<"a","<","b">>,
    <<"&","'","\"">> }

\* the span types given to the renderer: those of default_spans, that of
\* _find_spans, and one that no detector produces
SpanKinds == {"url", "novisit", "promo", "irrelevant", "other"}

\* the spans (span_type, start, end) with 0 <= start < end <= len(t)
SpansOf(t) ==
  {span \in SpanKinds \X (0..Len(t)) \X (0..Len(t)) : span[2] < span[3]}

\* the lists of at most MaxSpans spans of t, in any order, overlapping or not
SpanLists(t) == UNION {[1..n -> SpansOf(t)] : n \in 0..MaxSpans}

\* the review texts of the dashboard: the texts of a batch, a URL that
\* holds a promotional word, and a promotional word
DashboardTexts ==
  BatchTexts \cup
  { <<"w","w","w",".","d","e","a","l",".","a">>,
    <<"d","e","a","l"," ">> }

\* the column review_text: up to MaxBatch reviews
DashboardBatches == UNION {[1..n -> DashboardTexts] : n \in 0..MaxBatch}

DashboardCalls == {"business_mode", "process_reviews_by_place"}

\* the places a search can find
PlaceNames == {"p1", "p2", "p3", "p4"}

\* places_with_reviews: the lists of up to MaxPlaces different places, the
\* empty list when nothing is found
SearchResults ==
  UNION {{found \in [1..n -> PlaceNames] :
            \A j, k \in 1..n : j # k => found[j] # found[k]} : n \in 0..MaxPlaces}

----------------------------------------------------------------------------
(* The program: one call of default_spans(text), of                        *)
(* ReviewClassifier.classify_batch(texts), of infer_batch(texts) or of     *)
(* render_html_with_spans(text, spans).                                    *)
(* Spec is a call on any one text (or on no text), SpecBatch a batch call  *)
(* on several texts, SpecRender a call of the renderer.                    *)
(* SpecDashboard is the dashboard of one batch of reviews, SpecPages the   *)
(* pages of the live search.                                               *)

VARIABLES
  call,     \* the function called
  text,     \* the argument of default_spans
  texts,    \* the argument of classify_batch or infer_batch
  spans,    \* the list default_spans returns, or the argument of the renderer
  results,  \* the list of records built by the batch call
  rendered, \* the string render_html_with_spans returns
  pc,       \* "call" while the call runs, "done" when it has returned
  show_filter,   \* the choice of the radio 'Show:' of the dashboard
  df,            \* the columns the dashboard merges into its DataFrame
  metrics,       \* the numbers the dashboard shows with st.metric
  feed,          \* the rows of the review feed written so far
  session_state, \* st.session_state, a dict
  event,         \* the widget that started the script run
  frame          \* the place and the pagination controls on the screen

\* the state of the dashboard of one batch of reviews
dashVars == <<show_filter, df, metrics, feed>>

\* the state of the pages of the live search
pageVars == <<session_state, event, frame>>

vars == <<call, text, texts, spans, results, rendered, pc, dashVars, pageVars>>

\* st.session_state of a new session
EmptyDict == [key \in {} |-> 0]

\* no dashboard is running
NoDashboard ==
  /\ show_filter = "All"
  /\ df = [top_conf |-> <<>>, is_violation |-> <<>>]
  /\ metrics = <<>>
  /\ feed = <<>>

\* no live search is running
NoPages ==
  /\ session_state = EmptyDict
  /\ event = "none"
  /\ frame = <<>>

Init ==
  /\ call \in {"default_spans", "classify_batch", "infer_batch"}
  /\ text \in (IF call = "default_spans" THEN Texts ELSE {<<>>})
  /\ texts \in (IF call = "default_spans" THEN {<<>>} ELSE Singles)
  /\ spans = <<>>
  /\ results = <<>>
  /\ rendered = <<>>
  /\ pc = "call"
  /\ NoDashboard
  /\ NoPages

InitBatch ==
  /\ call \in {"classify_batch", "infer_batch"}
  /\ text = <<>>
  /\ texts \in Batches
  /\ spans = <<>>
  /\ results = <<>>
  /\ rendered = <<>>
  /\ pc = "call"
  /\ NoDashboard
  /\ NoPages

\* NextInput walking the inputs from the last to the first
NextInput_Reversed(inputs, done) == inputs[Len(inputs) - Len(done)]

\* the input of the next iteration of a batch call
NextInput(inputs, done) == inputs[Len(done) + 1]

\* default_spans(text)
DefaultSpansCall ==
  /\ pc = "call"
  /\ call = "default_spans"
  /\ spans' = default_spans(text)
  /\ pc' = "done"
  /\ UNCHANGED <<call, text, texts, results, rendered, dashVars, pageVars>>

\* the call returns after the iteration that exhausts the inputs
AfterStep(inputs, done) == IF Len(done) = Len(inputs) THEN "done" ELSE "call"

\* [self.classify_review(text) for text in texts], one element
ClassifyBatchStep ==
  /\ pc = "call"
  /\ call = "classify_batch"
  /\ Len(results) < Len(texts)
  /\ \E record \in classify_review(NextInput(texts, results)) :
       results' = Append(results, record)
  /\ pc' = AfterStep(texts, results')
  /\ UNCHANGED <<call, text, texts, spans, rendered, dashVars, pageVars>>

\* InferBatchStep with the scores of the record drawn as classify_review
\* draws them
InferBatchStep_Drawn ==
  /\ pc = "call"
  /\ call = "infer_batch"
  /\ Len(results) < Len(texts)
  /\ \E u \in Draws :
       LET record == infer_one(NextInput(texts, results))
       IN  results' = Append(results,
             [record EXCEPT !.scores =
                Scores(record.label, record.scores[record.label], u[2], u[3])])
  /\ pc' = AfterStep(texts, results')
  /\ UNCHANGED <<call, text, texts, spans, rendered, dashVars, pageVars>>

\* for text in texts: ... results.append({...}), one iteration
InferBatchStep ==
  /\ pc = "call"
  /\ call = "infer_batch"
  /\ Len(results) < Len(texts)
  /\ results' = Append(results, infer_one(NextInput(texts, results)))
  /\ pc' = AfterStep(texts, results')
  /\ UNCHANGED <<call, text, texts, spans, rendered, dashVars, pageVars>>

\* a batch call with no input returns the empty list
ReturnEmpty ==
  /\ pc = "call"
  /\ call \in {"classify_batch", "infer_batch"}
  /\ texts = <<>>
  /\ pc' = "done"
  /\ UNCHANGED <<call, text, texts, spans, results, rendered, dashVars, pageVars>>

Next ==
  \/ DefaultSpansCall
  \/ ClassifyBatchStep
  \/ InferBatchStep
  \/ ReturnEmpty

Spec == Init /\ [][Next]_vars

NextBatch ==
  \/ ClassifyBatchStep
  \/ InferBatchStep
  \/ ReturnEmpty

SpecBatch == InitBatch /\ [][NextBatch]_vars

InitRender ==
  /\ call = "render_html_with_spans"
  /\ text \in EscapeTexts \cup SpanTexts
  /\ texts = <<>>
  /\ spans \in (IF text \in SpanTexts THEN SpanLists(text) ELSE {<<>>})
  /\ results = <<>>
  /\ rendered = <<>>
  /\ pc = "call"
  /\ NoDashboard
  /\ NoPages

\* render_html_with_spans(text, spans)
RenderCall ==
  /\ pc = "call"
  /\ call = "render_html_with_spans"
  /\ rendered' = render_html_with_spans(text, spans)
  /\ pc' = "done"
  /\ UNCHANGED <<call, text, texts, spans, results, dashVars, pageVars>>

NextRender == RenderCall

SpecRender == InitRender /\ [][NextRender]_vars

\* The dashboard of one batch of reviews: business_mode on the reviews of
\* an uploaded file, process_reviews_by_place on the reviews of a place.
InitDashboard ==
  /\ call \in DashboardCalls
  /\ text = <<>>
  /\ texts \in DashboardBatches
  /\ spans = <<>>
  /\ results = <<>>
  /\ rendered = <<>>
  /\ pc = "call"
  /\ show_filter \in {"All", "Valid only", "Violations only"}
  /\ df = [top_conf |-> <<>>, is_violation |-> <<>>]
  /\ metrics = <<>>
  /\ feed = <<>>
  /\ NoPages

\* predictions = cached_inference(texts) and the merge of its columns;
\* business_mode goes on with the feed, process_reviews_by_place with the
\* metrics
ClassifyReviews ==
  /\ pc = "call"
  /\ call \in DashboardCalls
  /\ results' = cached_inference(texts)
  /\ df' = MergedColumns(results')
  /\ pc' = IF call = "business_mode" THEN "feed" ELSE "metrics"
  /\ UNCHANGED <<call, text, texts, spans, rendered, show_filter, metrics, feed, pageVars>>

\* the st.metric calls
ShowMetrics ==
  /\ pc = "metrics"
  /\ metrics' = Metrics(results, df)
  /\ pc' = IF call = "business_mode" THEN "done" ELSE "feed"
  /\ UNCHANGED <<call, text, texts, spans, results, rendered, show_filter, df, feed, pageVars>>

\* one iteration of the loop over the rows of the feed: business_mode
\* writes the text highlighted with the spans of the row,
\* process_reviews_by_place writes the text
ShowRow ==
  /\ pc = "feed"
  /\ Len(feed) < Len(FeedRows(call, results, df, show_filter))
  /\ LET row == FeedRows(call, results, df, show_filter)[Len(feed) + 1]
     IN  IF call = "business_mode"
         THEN /\ rendered' = render_html_with_spans(texts[row], results[row].spans)
              /\ feed' = Append(feed, [row |-> row, written |-> rendered'])
         ELSE /\ rendered' = rendered
              /\ feed' = Append(feed, [row |-> row, written |-> texts[row]])
  /\ UNCHANGED <<call, text, texts, spans, results, pc, show_filter, df, metrics, pageVars>>

\* the loop over the rows of the feed ends
EndFeed ==
  /\ pc = "feed"
  /\ Len(feed) = Len(FeedRows(call, results, df, show_filter))
  /\ pc' = IF call = "business_mode" THEN "metrics" ELSE "done"
  /\ UNCHANGED <<call, text, texts, spans, results, rendered, dashVars, pageVars>>

NextDashboard ==
  \/ ClassifyReviews
  \/ ShowMetrics
  \/ ShowRow
  \/ EndFeed

SpecDashboard == InitDashboard /\ [][NextDashboard]_vars

\* The pages of the live search: live_search_mode and the pagination of
\* process_reviews_by_place, one script run for each click.

\* d[key] = value for a dict d
DictSet(d, key, value) ==
  [k \in DOMAIN d \cup {key} |-> IF k = key THEN value ELSE d[k]]

\* 'search_results' in st.session_state and st.session_state.search_results
HasResults(state) ==
  "search_results" \in DOMAIN state /\ state["search_results"] # <<>>

\* StoreSearch without the reset of the page
StoreSearch_NoReset(state, found) == DictSet(state, "search_results", found)

\* a search that found places stores them and resets the page
StoreSearch(state, found) ==
  DictSet(DictSet(state, "search_results", found), "current_place_page", 0)

\* the page is initialised when the key is missing
InitPage(state) ==
  IF "current_place_page" \notin DOMAIN state
  THEN DictSet(state, "current_place_page", 0)
  ELSE state

\* a page at or past total_places is reset to 0
BoundPage(state, total_places) ==
  IF state["current_place_page"] >= total_places
  THEN DictSet(state, "current_place_page", 0)
  ELSE state

\* st.session_state after the first lines of process_reviews_by_place
PageState(state, places) == BoundPage(InitPage(state), Len(places))

\* max(0, current_page - 1)
PreviousPage(current_page) ==
  IF current_page - 1 > 0 THEN current_page - 1 ELSE 0

\* min(total_places - 1, current_page + 1)
NextPage(total_places, current_page) ==
  IF current_page + 1 < total_places - 1 THEN current_page + 1 ELSE total_places - 1

\* what process_reviews_by_place shows: the place of the page, and the
\* controls with their disabled flags when there is more than one place
Screen(places, current_page) ==
  [current_page  |-> current_page,
   total_places  |-> Len(places),
   place         |-> places[current_page + 1],
   controls      |-> Len(places) > 1,
   prev_disabled |-> current_page = 0,
   next_disabled |-> current_page >= Len(places) - 1]

InitPages ==
  /\ call = "live_search_mode"
  /\ text = <<>>
  /\ texts = <<>>
  /\ spans = <<>>
  /\ results = <<>>
  /\ rendered = <<>>
  /\ pc = "idle"
  /\ NoDashboard
  /\ NoPages

\* a click on Search: the places found are stored and shown from the first
\* page; when none is found only a warning is shown
SearchClick ==
  /\ pc = "idle"
  /\ call = "live_search_mode"
  /\ event' = "search"
  /\ \E found \in SearchResults :
       IF found = <<>>
       THEN /\ frame' = <<>>
            /\ UNCHANGED session_state
       ELSE /\ session_state' = PageState(StoreSearch(session_state, found), found)
            /\ frame' = Screen(found, session_state'["current_place_page"])
  /\ UNCHANGED <<call, text, texts, spans, results, rendered, pc, dashVars>>

\* a script run that no button of the pages started, st.rerun() included:
\* the stored results are shown again
Rerun ==
  /\ pc \in {"idle", "rerun"}
  /\ call = "live_search_mode"
  /\ event' = "none"
  /\ IF HasResults(session_state)
     THEN /\ session_state' = PageState(session_state, session_state["search_results"])
          /\ frame' = Screen(session_state["search_results"],
                             session_state'["current_place_page"])
     ELSE /\ frame' = <<>>
          /\ UNCHANGED session_state
  /\ pc' = "idle"
  /\ UNCHANGED <<call, text, texts, spans, results, rendered, dashVars>>

\* a click on Previous, at the top or at the bottom: the button is on the
\* screen and not disabled; the bottom one comes after the place is shown
ClickPrevious ==
  /\ pc = "idle"
  /\ frame # <<>>
  /\ frame.controls /\ ~frame.prev_disabled
  /\ HasResults(session_state)
  /\ \E control \in {"top", "bottom"} :
       LET places == session_state["search_results"]
           state == PageState(session_state, places)
           current_page == state["current_place_page"]
       IN  /\ event' = IF control = "top" THEN "prev_top" ELSE "prev_bottom"
           /\ frame' = IF control = "top" THEN frame ELSE Screen(places, current_page)
           /\ session_state' =
                DictSet(state, "current_place_page", PreviousPage(current_page))
  /\ pc' = "rerun"
  /\ UNCHANGED <<call, text, texts, spans, results, rendered, dashVars>>

\* a click on Next, at the top or at the bottom
ClickNext ==
  /\ pc = "idle"
  /\ frame # <<>>
  /\ frame.controls /\ ~frame.next_disabled
  /\ HasResults(session_state)
  /\ \E control \in {"top", "bottom"} :
       LET places == session_state["search_results"]
           state == PageState(session_state, places)
           current_page == state["current_place_page"]
       IN  /\ event' = IF control = "top" THEN "next_top" ELSE "next_bottom"
           /\ frame' = IF control = "top" THEN frame ELSE Screen(places, current_page)
           /\ session_state' =
                DictSet(state, "current_place_page",
                        NextPage(Len(places), current_page))
  /\ pc' = "rerun"
  /\ UNCHANGED <<call, text, texts, spans, results, rendered, dashVars>>

NextPages ==
  \/ SearchClick
  \/ Rerun
  \/ ClickPrevious
  \/ ClickNext

SpecPages == InitPages /\ [][NextPages]_vars

TypeOK ==
  /\ pc \in {"call", "done"}
  /\ Len(results) <= Len(texts)

----------------------------------------------------------------------------
(* Properties.  The records of a classify_batch call are the records       *)
(* classify_review returned, record k for texts[k]; those of an            *)
(* infer_batch call are the records of its loop.                           *)

Classified == IF call = "classify_batch" THEN 1..Len(results) ELSE {}

Inferred == IF call = "infer_batch" THEN 1..Len(results) ELSE {}

Detected == call = "default_spans" /\ pc = "done"

\* some offset of t starts 'http://', 'https://' or 'www.' and the next
\* character is not whitespace
HasUrlOccurrence(t) ==
  \E i \in 0..(Len(t) - 1) : \E lit \in {LitHttp, LitHttps, LitWww} :
    /\ StartsWith(t, i, lit)
    /\ i + Len(lit) < Len(t)
    /\ ~IsSpace(t[i + Len(lit) + 1])

IsAdText(t) == Contains(Lower(t), WVisitOurWebsite) \/ HasUrlOccurrence(t)

IsNeverBeenText(t) == Contains(Lower(t), PNeverBeen)

IsShortText(t) == WordCount(t) < 5

IsRantText(t) == Contains(t, LitBangs) \/ IsUpper(t)

\* C1: classify_review decides the label by a first-match-wins cascade:
\* 'ad' for 'visit our website' or a URL, else 'irrelevant' for 'never
\* been', else 'irrelevant' for fewer than 5 words, else 'rant' for '!!!!'
\* or all uppercase, else 'valid'; an earlier rule overrides a later one.
C1_Cascade ==
  \A k \in Classified :
    LET t == texts[k]
        label == results[k].label
    IN  /\ IsAdText(t) => label = "ad"
        /\ ~IsAdText(t) /\ IsNeverBeenText(t) => label = "irrelevant"
        /\ ~IsAdText(t) /\ ~IsNeverBeenText(t) /\ IsShortText(t) => label = "irrelevant"
        /\ ~IsAdText(t) /\ ~IsNeverBeenText(t) /\ ~IsShortText(t) /\ IsRantText(t)
             => label = "rant"
        /\ ~IsAdText(t) /\ ~IsNeverBeenText(t) /\ ~IsShortText(t) /\ ~IsRantText(t)
             => label = "valid"

\* a text with a URL, 'never been' and fewer than 5 words is 'ad'
C1_Witness ==
  \E k \in Classified :
    /\ HasUrlOccurrence(texts[k])
    /\ IsNeverBeenText(texts[k])
    /\ IsShortText(texts[k])
    /\ results[k].label = "ad"

Pct(n) == (One \div 100) * n

\* C2: infer_batch decides each record from the kinds of the spans of
\* default_spans only: 'ad' for a url or promo span, else 'rant' for a
\* novisit span, else 'valid', each with its fixed scores; never
\* 'irrelevant'; the spans are the detector's, tags unchanged.
C2_SpanDriven ==
  \A k \in Inferred :
    LET found == default_spans(texts[k])
        kinds == {found[j][1] : j \in 1..Len(found)}
        record == results[k]
    IN  /\ record.spans = found
        /\ record.label # "irrelevant"
        /\ kinds \cap {"url", "promo"} # {} =>
             /\ record.label = "ad"
             /\ record.scores =
                  [ad |-> Pct(90), valid |-> Pct(5), irrelevant |-> Pct(3), rant |-> Pct(2)]
        /\ kinds \cap {"url", "promo"} = {} /\ "novisit" \in kinds =>
             /\ record.label = "rant"
             /\ record.scores =
                  [rant |-> Pct(85), valid |-> Pct(8), irrelevant |-> Pct(5), ad |-> Pct(2)]
        /\ kinds \cap {"url", "promo", "novisit"} = {} =>
             /\ record.label = "valid"
             /\ record.scores =
                  [valid |-> Pct(88), ad |-> Pct(5), irrelevant |-> Pct(4), rant |-> Pct(3)]

\* a text with only non-visitor spans is labelled 'rant'
C2_Witness ==
  \E k \in Inferred :
    /\ results[k].label = "rant"
    /\ results[k].spans # <<>>
    /\ \A j \in 1..Len(results[k].spans) : results[k].spans[j][1] = "novisit"

\* C3: in every record of classify_review, for every outcome of the
\* draws, scores[label] is the maximum of the four scores.
C3_LabelScoreIsMax ==
  \A k \in Classified :
    \A cat \in DOMAIN results[k].scores :
      results[k].scores[cat] <= results[k].scores[results[k].label]

\* the lowest base confidence (0.60, 'valid') with both draws at their
\* minimum, so that the last category absorbs the most
C3_Witness ==
  \E k \in Classified :
    /\ results[k].label = "valid"
    /\ results[k].scores["valid"] = Pct(60)
    /\ results[k].scores["ad"] = Pct(1)
    /\ results[k].scores["irrelevant"] = Pct(1)
    /\ results[k].scores["rant"] = Pct(38)

\* C4: the violations of a record are empty exactly when its label is
\* 'valid', for classify_review and for infer_batch.
C4_ViolationsIffNotValid ==
  \A k \in Classified \cup Inferred :
    (results[k].violations = <<>>) <=> (results[k].label = "valid")

\* a record labelled 'ad' by the phrase 'visit our website' alone, with no
\* URL and no promo span of one word, carries a violation
C4_Witness ==
  \E k \in Classified :
    /\ results[k].label = "ad"
    /\ ~HasUrlOccurrence(texts[k])
    /\ results[k].violations = <<"Contains promotional content">>

SpanStart(span) == span[2]

SpanEnd(span) == span[3]

Disjoint(a, b) == SpanEnd(a) <= SpanStart(b) \/ SpanEnd(b) <= SpanStart(a)

SortedByStart(list) ==
  \A j, m \in 1..Len(list) : j < m => SpanStart(list[j]) <= SpanStart(list[m])

\* C5: the spans of one call of default_spans are pairwise non-overlapping,
\* spans of different kinds included.
C5_NonOverlapping ==
  Detected => \A j, m \in 1..Len(spans) : j # m => Disjoint(spans[j], spans[m])

\* the order of detection that the ordering of ties is stated in
TieRank(kind) == CASE kind = "url" -> 1 [] kind = "promo" -> 2 [] kind = "novisit" -> 3

\* C6: the list of default_spans is sorted ascending by start, spans with
\* equal start are in the order url, promo, novisit, and it holds every
\* span detected, none dropped or merged.
C6_SortedStable ==
  Detected =>
    /\ SortedByStart(spans)
    /\ \A j, m \in 1..Len(spans) :
         j < m /\ SpanStart(spans[j]) = SpanStart(spans[m])
           => TieRank(spans[j][1]) <= TieRank(spans[m][1])
    /\ Len(spans) = Len(Tagged("url", finditer(url_pattern, text)))
                  + Len(Tagged("novisit", finditer(novisit_pattern, text)))
                  + Len(PromoSpans(detector_promo_words, text))
    /\ \A j \in 1..Len(DetectedSpans(text)) :
         \E m \in 1..Len(spans) : spans[m] = DetectedSpans(text)[j]

\* spans of two kinds that were detected in another order than they are
\* returned in
C6_Witness ==
  /\ Detected
  /\ spans # DetectedSpans(text)
  /\ \E j, m \in 1..Len(spans) : spans[j][1] # spans[m][1]

InBounds(span, t) == 0 <= SpanStart(span) /\ SpanStart(span) < SpanEnd(span)
                     /\ SpanEnd(span) <= Len(t)

\* C7: every span of default_spans and of _find_spans has
\* 0 <= start < end <= len(text); its kind is url, promo or novisit for
\* default_spans and url, promo or irrelevant for _find_spans; the empty
\* string yields the empty list.
C7_SpansInBounds ==
  /\ Detected =>
       /\ \A j \in 1..Len(spans) :
            InBounds(spans[j], text) /\ spans[j][1] \in {"url", "promo", "novisit"}
       /\ text = <<>> => spans = <<>>
  /\ \A k \in Classified :
       /\ \A j \in 1..Len(results[k].spans) :
            /\ InBounds(results[k].spans[j], texts[k])
            /\ results[k].spans[j][1] \in {"url", "promo", "irrelevant"}
       /\ texts[k] = <<>> => results[k].spans = <<>>

\* a span that starts at offset 0 and a span that ends at len(text)
C7_Witness ==
  /\ Detected
  /\ \E j \in 1..Len(spans) : SpanStart(spans[j]) = 0
  /\ \E j \in 1..Len(spans) : SpanEnd(spans[j]) = Len(text) /\ spans[j][1] = "url"

\* C8: the spans of every record of classify_review are sorted ascending
\* by start.
C8_ClassifySpansSorted == \A k \in Classified : SortedByStart(results[k].spans)

KindRank(kind) == CASE kind = "url" -> 1 [] kind = "promo" -> 2 [] kind = "irrelevant" -> 3

\* the place in promo_words of the word a promo span matched
WordIndex(span, t) ==
  CHOOSE w \in 1..Len(promo_words) :
    promo_words[w] = Lower(Slice(t, SpanStart(span), SpanEnd(span)))

\* C8 as amended: the spans of a record of classify_review are in the
\* order of detection: url spans, then promo spans word after word of the
\* vocabulary, then irrelevant spans; the matches of one pattern are
\* ascending by start.
C8_DetectionOrder ==
  \A k \in Classified :
    LET list == results[k].spans
    IN  \A j, m \in 1..Len(list) :
          j < m =>
            /\ KindRank(list[j][1]) <= KindRank(list[m][1])
            /\ list[j][1] = list[m][1] /\ list[j][1] # "promo"
                 => SpanEnd(list[j]) <= SpanStart(list[m])
            /\ list[j][1] = "promo" /\ list[m][1] = "promo"
                 => /\ WordIndex(list[j], texts[k]) <= WordIndex(list[m], texts[k])
                    /\ WordIndex(list[j], texts[k]) = WordIndex(list[m], texts[k])
                         => SpanEnd(list[j]) <= SpanStart(list[m])

\* a promo word before a URL: the url span comes first in the record
C8_Witness ==
  \E k \in Classified :
    \E j \in 1..(Len(results[k].spans) - 1) :
      /\ results[k].spans[j][1] = "url"
      /\ results[k].spans[j + 1][1] = "promo"
      /\ SpanStart(results[k].spans[j + 1]) < SpanStart(results[k].spans[j])

SpanSet(list) == {list[j] : j \in 1..Len(list)}

Retagged(span) ==
  <<IF span[1] = "novisit" THEN "irrelevant" ELSE span[1], span[2], span[3]>>

\* C9: the set of spans classify_review attaches equals the set the
\* detector produces with every 'novisit' tag replaced by 'irrelevant'.
C9_SameAsDetector ==
  \A k \in Classified :
    SpanSet(results[k].spans) = {Retagged(s) : s \in SpanSet(default_spans(texts[k]))}

Matched(span, t) == Lower(Slice(t, SpanStart(span), SpanEnd(span)))

\* C9 as amended: the url spans are the detector's; the promo spans are
\* the detector's and the whole-word matches of 'offer', 'free' and 'visit
\* our website'; the irrelevant spans are the detector's novisit spans
\* except the matches of 'not visited', which yield no span.
C9_DetectorRelation ==
  \A k \in Classified :
    LET t == texts[k]
        mine == SpanSet(results[k].spans)
        theirs == SpanSet(default_spans(t))
    IN  /\ {s \in mine : s[1] = "url"} = {s \in theirs : s[1] = "url"}
        /\ {s \in mine : s[1] = "promo" /\ Matched(s, t) \notin {WOffer, WFree, WVisitOurWebsite}}
             = {s \in theirs : s[1] = "promo"}
        /\ {s \in mine : s[1] = "irrelevant"}
             = {Retagged(s) : s \in {x \in theirs : x[1] = "novisit" /\ Matched(x, t) # PNotVisited}}
        /\ \A s \in mine : s[1] \in {"url", "promo", "irrelevant"}

\* a text with 'never been' and 'not visited': one irrelevant span, two
\* novisit spans
C9_Witness ==
  \E k \in Classified :
    /\ \E s \in SpanSet(results[k].spans) : s[1] = "irrelevant"
    /\ \E s \in SpanSet(default_spans(texts[k])) :
         s[1] = "novisit" /\ Matched(s, texts[k]) = PNotVisited

\* C10: classify_batch and infer_batch return a list of the length of
\* their input whose i-th record is the classification of the i-th input
\* alone: label, violations and spans do not depend on the other elements
\* or on the position; the empty list yields the empty list.
C10_BatchElementwise ==
  /\ call \in {"classify_batch", "infer_batch"} /\ pc = "done"
       => Len(results) = Len(texts)
  /\ \A k \in Classified :
       /\ results[k].label = BranchLabel(Branch(texts[k]))
       /\ results[k].violations = _get_violations(results[k].label, texts[k])
       /\ results[k].spans = _find_spans(texts[k])
  /\ \A k \in Inferred : results[k] = infer_one(texts[k])
  /\ \A j, k \in Classified \cup Inferred :
       texts[j] = texts[k] =>
         /\ results[j].label = results[k].label
         /\ results[j].violations = results[k].violations
         /\ results[j].spans = results[k].spans

\* a returned batch of two texts with different labels
C10_Witness ==
  /\ call \in {"classify_batch", "infer_batch"}
  /\ pc = "done"
  /\ Len(results) >= 2
  /\ results[1].label # results[2].label
  /\ results[1].spans # results[2].spans

\* text[s:e] is a URL occurrence: a prefix 'http://', 'https://' or 'www.',
\* then one or more characters none of which is whitespace, up to the end
\* of the text or to the next whitespace
IsUrlOccurrence(t, s, e) ==
  /\ e <= Len(t)
  /\ \E lit \in {LitHttp, LitHttps, LitWww} :
       /\ StartsWith(t, s, lit)
       /\ s + Len(lit) < e
  /\ \A i \in (s + 1)..e : ~IsSpace(t[i])
  /\ e = Len(t) \/ IsSpace(t[e + 1])

\* C11: for a text that has a URL occurrence, default_spans returns a
\* 'url' span whose start and end delimit exactly an occurrence, and
\* classify_review labels the text 'ad'.
C11_UrlSpanAndAd ==
  /\ Detected /\ HasUrlOccurrence(text) =>
       \E k \in 1..Len(spans) :
         /\ spans[k][1] = "url"
         /\ IsUrlOccurrence(text, spans[k][2], spans[k][3])
  /\ \A k \in Classified : HasUrlOccurrence(texts[k]) => results[k].label = "ad"

\* the detector has returned a url span that starts inside the text
C11_Witness ==
  /\ Detected
  /\ HasUrlOccurrence(text)
  /\ \E k \in 1..Len(spans) :
       /\ spans[k][1] = "url"
       /\ spans[k][2] > 0
       /\ IsUrlOccurrence(text, spans[k][2], spans[k][3])

\* some word of the classifier's promotional vocabulary occurs in t,
\* whatever the case
HasPromoContent(t) ==
  \E k \in 1..Len(promo_words) : Contains(Lower(t), promo_words[k])

\* C12: a text of fewer than 5 whitespace-delimited tokens with no URL and
\* no promotional content, the empty and the whitespace-only strings
\* included, is classified 'irrelevant' with 'Insufficient content' among
\* the violations.
C12_ShortIsIrrelevant ==
  \A k \in Classified :
    WordCount(texts[k]) < 5 /\ ~HasUrlOccurrence(texts[k]) /\ ~HasPromoContent(texts[k])
      => /\ results[k].label = "irrelevant"
         /\ \E v \in 1..Len(results[k].violations) :
              results[k].violations[v] = "Insufficient content"

\* a whitespace-only text has been classified 'irrelevant'
C12_Witness ==
  \E k \in Classified :
    /\ texts[k] # <<>>
    /\ \A i \in 1..Len(texts[k]) : IsSpace(texts[k][i])
    /\ results[k].label = "irrelevant"
    /\ results[k].violations = <<"Insufficient content">>

\* the uppercase letter of each lowercase letter
UpperOf == [c \in LowerSet |-> UpperLetters[CHOOSE k \in 1..26 : LowerLetters[k] = c]]

\* the uppercase form of t
Upper(t) == [k \in 1..Len(t) |-> IF t[k] \in LowerSet THEN UpperOf[t[k]] ELSE t[k]]

HasLetter(t) == \E k \in 1..Len(t) : t[k] \in LowerSet \cup UpperSet

\* C13: a text that equals its uppercase form, has a letter and matches
\* neither the 'ad' nor the 'irrelevant' rules (no URL, no 'visit our
\* website', no 'never been', 5 words or more) is classified 'rant' with
\* 'All caps text' among the violations.
C13_AllCapsIsRant ==
  \A k \in Classified :
    LET t == texts[k]
    IN  /\ Upper(t) = t
        /\ HasLetter(t)
        /\ ~IsAdText(t)
        /\ ~IsNeverBeenText(t)
        /\ ~IsShortText(t)
        => /\ results[k].label = "rant"
           /\ \E v \in 1..Len(results[k].violations) :
                results[k].violations[v] = "All caps text"

\* an all-uppercase text of 5 words with spaces between them is a 'rant'
C13_Witness ==
  \E k \in Classified :
    /\ Upper(texts[k]) = texts[k]
    /\ HasLetter(texts[k])
    /\ WordCount(texts[k]) >= 5
    /\ results[k].label = "rant"
    /\ results[k].violations = <<"All caps text">>

HasViolation(record, reason) ==
  \E v \in 1..Len(record.violations) : record.violations[v] = reason

\* C16: the violations of a record labelled 'ad' come from scanning the
\* text again: 'Contains promotional content' is there iff a word of the
\* classifier's promotional vocabulary occurs in the text whatever the
\* case, 'Contains external links' iff the URL pattern matches, the
\* promotional one first, and nothing else; the review 'Visit our website
\* www.promo.com for deals!' gets both.
C16_AdViolations ==
  \A k \in Classified :
    results[k].label = "ad" =>
      /\ HasViolation(results[k], "Contains promotional content")
           <=> HasPromoContent(texts[k])
      /\ HasViolation(results[k], "Contains external links")
           <=> HasUrlOccurrence(texts[k])
      /\ Len(results[k].violations) <= 2
      /\ Len(results[k].violations) = 2 =>
           results[k].violations =
             <<"Contains promotional content", "Contains external links">>
      /\ texts[k] \in Scenarios => Len(results[k].violations) = 2

\* the review with the promotional phrase and the URL has both violations
C16_Witness ==
  \E k \in Classified :
    /\ texts[k] \in Scenarios
    /\ results[k].label = "ad"
    /\ results[k].violations =
         <<"Contains promotional content", "Contains external links">>

\* C17: scores[label] is the base confidence of the rule that decided the
\* label: 0.85 for 'ad', 0.78 for 'never been' (also when the text is
\* short), 0.65 for the short-text rule alone, 0.72 for 'rant' and a value
\* of [0.60, 0.95] for 'valid'.
C17_BaseConfidence ==
  \A k \in Classified :
    LET t == texts[k]
        score == results[k].scores[results[k].label]
    IN  /\ IsAdText(t) => score = Pct(85)
        /\ ~IsAdText(t) /\ IsNeverBeenText(t) => score = Pct(78)
        /\ ~IsAdText(t) /\ ~IsNeverBeenText(t) /\ IsShortText(t) => score = Pct(65)
        /\ ~IsAdText(t) /\ ~IsNeverBeenText(t) /\ ~IsShortText(t) /\ IsRantText(t)
             => score = Pct(72)
        /\ ~IsAdText(t) /\ ~IsNeverBeenText(t) /\ ~IsShortText(t) /\ ~IsRantText(t)
             => Pct(60) <= score /\ score <= Pct(95)

\* a text of fewer than 5 words with 'never been' scores 0.78, a short text
\* without it 0.65
C17_Witness ==
  \E k \in Classified :
    /\ IsNeverBeenText(texts[k])
    /\ IsShortText(texts[k])
    /\ results[k].label = "irrelevant"
    /\ results[k].scores["irrelevant"] = Pct(78)

\* the category classify_review processes last: the last of categories
\* that is not the label
LastCategory(label) ==
  IF label = categories[Len(categories)]
  THEN categories[Len(categories) - 1]
  ELSE categories[Len(categories)]

\* C18: whatever the draws, scores has exactly the keys valid, ad,
\* irrelevant and rant and each value is in [0, 1]; the category processed
\* last, which takes what remains after the two draws, is never negative.
C18_ScoresInRange ==
  \A k \in Classified :
    /\ DOMAIN results[k].scores = {"valid", "ad", "irrelevant", "rant"}
    /\ \A cat \in DOMAIN results[k].scores :
         0 <= results[k].scores[cat] /\ results[k].scores[cat] <= One
    /\ results[k].scores[LastCategory(results[k].label)] >= 0

\* a 'valid' record at the largest base confidence and the largest draws:
\* the last category keeps less than 0.01
C18_Witness ==
  \E k \in Classified :
    /\ results[k].label = "valid"
    /\ results[k].scores["valid"] = Pct(95)
    /\ LastCategory("valid") = "rant"
    /\ results[k].scores["rant"] < Pct(1)
    /\ results[k].scores["rant"] > 0

----------------------------------------------------------------------------
(* Properties of render_html_with_spans. *)

Rendered == call = "render_html_with_spans" /\ pc = "done"

\* the character reference that stands for c in escaped text, c itself for
\* any other character
CharRef(c) ==
  CASE c = "&" -> <<"&","a","m","p",";">>
    [] c = "<" -> <<"&","l","t",";">>
    [] c = ">" -> <<"&","g","t",";">>
    [] c = "\"" -> <<"&","q","u","o","t",";">>
    [] c = "'" -> <<"&","#","x","2","7",";">>
    [] OTHER -> <<c>>

\* t with only markup escaping applied: each character by its reference
RECURSIVE Escaped(_)
Escaped(t) == IF t = <<>> THEN <<>> ELSE CharRef(Head(t)) \o Escaped(Tail(t))

\* Decoding of character references, as html.unescape does it in one pass
\* from left to right: &#digits, &#xhexdigits and &name, each with or
\* without its ';'; a name that is not a reference is looked up by its
\* longest prefix of 2 or more characters; what is decoded is not scanned
\* again.  The names are those the texts of the model can spell.
EntityNames ==
  { <<<<"a","m","p",";">>, "&">>, <<<<"a","m","p">>, "&">>,
    <<<<"l","t",";">>, "<">>, <<<<"l","t">>, "<">>,
    <<<<"g","t",";">>, ">">>, <<<<"g","t">>, ">">>,
    <<<<"q","u","o","t",";">>, "\"">>, <<<<"q","u","o","t">>, "\"">>,
    <<<<"a","p","o","s",";">>, "'">> }

IsEntity(name) == \E e \in EntityNames : e[1] = name

EntityChar(name) == (CHOOSE e \in EntityNames : e[1] = name)[2]

HexDigits ==
  [c \in {"0","1","2","3","4","5","6","7","8","9","a","b","c","d","e","f"} |->
     CASE c = "0" -> 0 [] c = "1" -> 1 [] c = "2" -> 2 [] c = "3" -> 3
       [] c = "4" -> 4 [] c = "5" -> 5 [] c = "6" -> 6 [] c = "7" -> 7
       [] c = "8" -> 8 [] c = "9" -> 9 [] c = "a" -> 10 [] c = "b" -> 11
       [] c = "c" -> 12 [] c = "d" -> 13 [] c = "e" -> 14 [] c = "f" -> 15]

IsDigit(c, base) == c \in DOMAIN HexDigits /\ HexDigits[ToLower(c)] < base

\* the number of leading characters of s that are digits of the base
RECURSIVE DigitRun(_, _)
DigitRun(s, base) ==
  IF s # <<>> /\ IsDigit(ToLower(Head(s)), base)
  THEN 1 + DigitRun(Tail(s), base) ELSE 0

RECURSIVE DigitsValue(_, _)
DigitsValue(s, base) ==
  IF s = <<>> THEN 0
  ELSE DigitsValue(SubSeq(s, 1, Len(s) - 1), base) * base
       + HexDigits[ToLower(s[Len(s)])]

\* the character of a code point; a code point outside the characters of
\* the model stays a number
CodePointChar(n) ==
  CASE n = 34 -> "\"" [] n = 38 -> "&" [] n = 39 -> "'"
    [] n = 60 -> "<" [] n = 62 -> ">" [] OTHER -> n

\* the number of leading characters of s that can spell a name, 32 at most
RECURSIVE NameRun(_, _)
NameRun(s, n) ==
  IF n < 32 /\ s # <<>> /\ Head(s) \notin {"\t", "\n", "\f", " ", "<", "&", "#", ";"}
  THEN NameRun(Tail(s), n + 1) ELSE n

\* the largest x of 2..n with name[:x] a reference, 0 when none
RECURSIVE EntityPrefix(_, _)
EntityPrefix(name, n) ==
  IF n < 2 THEN 0
  ELSE IF IsEntity(SubSeq(name, 1, n)) THEN n
  ELSE EntityPrefix(name, n - 1)

Drop(s, n) == SubSeq(s, n + 1, Len(s))

RECURSIVE HtmlUnescape(_)
HtmlUnescape(s) ==
  IF s = <<>> THEN <<>>
  ELSE IF Head(s) # "&" THEN <<Head(s)>> \o HtmlUnescape(Tail(s))
  ELSE
    LET r == Tail(s)
        hex == Len(r) >= 2 /\ r[1] = "#" /\ r[2] \in {"x", "X"}
        digits == IF hex THEN Drop(r, 2) ELSE Drop(r, 1)
        base == IF hex THEN 16 ELSE 10
        nd == IF r # <<>> /\ r[1] = "#" THEN DigitRun(digits, base) ELSE 0
        nn == NameRun(r, 0)
        name == SubSeq(r, 1, nn + (IF Len(r) > nn /\ r[nn + 1] = ";" THEN 1 ELSE 0))
        px == EntityPrefix(name, Len(name) - 1)
    IN  IF nd > 0
        THEN <<CodePointChar(DigitsValue(SubSeq(digits, 1, nd), base))>> \o
             HtmlUnescape(Drop(digits, nd + (IF Len(digits) > nd /\ digits[nd + 1] = ";"
                                             THEN 1 ELSE 0)))
        ELSE IF nn > 0 /\ IsEntity(name)
        THEN <<EntityChar(name)>> \o HtmlUnescape(Drop(r, Len(name)))
        ELSE IF nn > 0 /\ px > 0
        THEN <<EntityChar(SubSeq(name, 1, px))>> \o Drop(name, px) \o
             HtmlUnescape(Drop(r, Len(name)))
        ELSE IF nn > 0
        THEN <<"&">> \o name \o HtmlUnescape(Drop(r, Len(name)))
        ELSE <<"&">> \o HtmlUnescape(r)

\* C14: render_html_with_spans(text, []) is the text with only markup
\* escaping applied, and decoding the character references of what it
\* returns gives the text back exactly.
C14_EscapeRoundTrip ==
  Rendered /\ spans = <<>> =>
    /\ rendered = Escaped(text)
    /\ HtmlUnescape(rendered) = text

\* a text that already spells a character reference is escaped, and
\* decoding gives it back
C14_Witness ==
  /\ Rendered
  /\ spans = <<>>
  /\ HtmlUnescape(text) # text
  /\ rendered # text
  /\ HtmlUnescape(rendered) = text

LightYellow == "#fde68a"

LightRed == "#fecaca"

LightGreen == "#bbf7d0"

NeutralGray == "#f0f0f0"

\* the opening tags the renderer can write, and all its tags
OpenTags == {OpenTag(color) : color \in {LightYellow, LightRed, LightGreen, NeutralGray}}

Tags == OpenTags \cup {CloseTag}

\* the positions of the elements of out that are in set, ascending
Positions(out, set) ==
  SelectSeq([i \in 1..Len(out) |-> i], LAMBDA i : out[i] \in set)

\* the colour stated for each span type
StatedColor(kind) ==
  CASE kind = "url" -> LightYellow
    [] kind = "novisit" -> LightRed
    [] kind = "irrelevant" -> LightRed
    [] kind = "promo" -> LightGreen
    [] OTHER -> NeutralGray

\* C15: the renderer takes the colour of each span from a fixed table by
\* kind: url light yellow, novisit and irrelevant both light red, promo
\* light green, and neutral gray only for a kind outside these; an
\* 'irrelevant' span is rendered in the colour of a 'novisit' span.
C15_ColorTable ==
  Rendered =>
    {rendered[i] : i \in {j \in 1..Len(rendered) : rendered[j] \in OpenTags}} =
      {OpenTag(StatedColor(spans[k][1])) : k \in 1..Len(spans)}

\* no two of the spans given to the renderer share a character
NonOverlapping(list) ==
  \A j, k \in 1..Len(list) : j # k => Disjoint(list[j], list[k])

\* the place of span k of list when the spans are ordered by start
Rank(list, k) ==
  1 + Cardinality({j \in 1..Len(list) : SpanStart(list[j]) < SpanStart(list[k])})

\* out without its tags
StripTags(out) == SelectSeq(out, LAMBDA x : x \notin Tags)

\* C20: given pairwise non-overlapping in-bounds spans in any order, the
\* renderer writes them ordered by start: before each span the escaped gap
\* since the previous one, then the escaped substring of the span inside
\* one wrapper, and after the last span the escaped rest of the text; the
\* output without the wrappers is exactly the escaped text, every
\* character of the text once.
C20_RenderInOrder ==
  Rendered /\ NonOverlapping(spans) =>
    LET opens == Positions(rendered, OpenTags)
        closes == Positions(rendered, {CloseTag})
    IN  /\ StripTags(rendered) = Escaped(text)
        /\ Len(opens) = Len(spans)
        /\ Len(closes) = Len(spans)
        /\ \A k \in 1..Len(spans) :
             LET o == opens[Rank(spans, k)]
                 c == closes[Rank(spans, k)]
             IN  /\ o < c
                 /\ SubSeq(rendered, o + 1, c - 1) =
                      Escaped(Slice(text, SpanStart(spans[k]), SpanEnd(spans[k])))
                 /\ StripTags(SubSeq(rendered, 1, o - 1)) =
                      Escaped(Slice(text, 0, SpanStart(spans[k])))

\* two spans given with the later one first and a character that needs
\* escaping between them
C20_Witness ==
  /\ Rendered
  /\ Len(spans) = 2
  /\ NonOverlapping(spans)
  /\ SpanEnd(spans[2]) < SpanStart(spans[1])
  /\ Escaped(text) # text
  /\ Len(Positions(rendered, OpenTags)) = 2
  /\ StripTags(rendered) = Escaped(text)

----------------------------------------------------------------------------
(* Determinism of the span-driven path. *)

----------------------------------------------------------------------------
(* Properties of the dashboard. *)

\* the positions of the cursor last_pos of the renderer while it walks
\* list in the order of start: 0, then the end of each span
Cursor(list) ==
  <<0>> \o [k \in 1..Len(list) |-> SpanEnd(SortByStart(list)[k])]

\* C21: what business_mode writes for a review, the text rendered with
\* the spans infer_batch returned for it, preserves the text: the cursor
\* of the renderer never moves backwards, and without the highlight
\* wrappers the output is the escaped text, no character twice or missing,
\* also when a promotional word lies inside a URL.
C21_FeedPreservesText ==
  call = "business_mode" =>
    \A n \in 1..Len(feed) :
      LET cursor == Cursor(results[feed[n].row].spans)
      IN  /\ \A k \in 1..(Len(cursor) - 1) : cursor[k] <= cursor[k + 1]
          /\ StripTags(feed[n].written) = Escaped(texts[feed[n].row])

\* C22: the flag is_violation of a review is true exactly when its label
\* is not 'valid'; so the filters 'Valid only' and 'Violations only' share
\* no review and leave none out, and Valid Reviews plus Flagged Reviews is
\* Total Reviews.
C22_FlaggedIffNotValid ==
  call \in DashboardCalls /\ pc # "call" =>
    /\ Len(df.is_violation) = Len(texts)
    /\ \A k \in 1..Len(texts) : df.is_violation[k] <=> results[k].label # "valid"
    /\ metrics # <<>> =>
         /\ metrics.total = Len(texts)
         /\ metrics.valid + metrics.flagged = metrics.total
    /\ \A n \in 1..Len(feed) :
         /\ show_filter = "Valid only" => results[feed[n].row].label = "valid"
         /\ show_filter = "Violations only" => results[feed[n].row].label # "valid"

\* the metrics of a batch with a valid review and a 'rant', whose largest
\* score is 0.85
C22_Witness ==
  /\ call \in DashboardCalls
  /\ metrics # <<>>
  /\ metrics.valid = 1
  /\ metrics.flagged = 1
  /\ metrics.total = 2
  /\ \E k \in 1..Len(results) :
       /\ results[k].label = "rant"
       /\ df.top_conf[k] = Pct(85)
       /\ df.is_violation[k]

----------------------------------------------------------------------------
(* Properties of the pages of the live search. *)

\* C23: with a non-empty list of places, whatever the clicks on Previous
\* and Next (top or bottom), the reruns and the new searches, the page that
\* selects the place shown is within 0 .. total_places - 1: at page 0
\* Previous, and at the last page Next, cannot move it (the button is
\* disabled and the new page is clamped), a new search shows page 0, and a
\* stored page at or past total_places is reset to 0 before it is used.
C23_PageInRange ==
  call = "live_search_mode" =>
    /\ frame # <<>> =>
         /\ HasResults(session_state)
         /\ frame.total_places = Len(session_state["search_results"])
         /\ frame.current_page \in 0..(frame.total_places - 1)
         /\ frame.place = session_state["search_results"][frame.current_page + 1]
         /\ frame.current_page = 0 => frame.prev_disabled
         /\ frame.current_page = frame.total_places - 1 => frame.next_disabled
    /\ HasResults(session_state) /\ "current_place_page" \in DOMAIN session_state =>
         session_state["current_place_page"]
           \in 0..(Len(session_state["search_results"]) - 1)
    /\ event = "search" /\ frame # <<>> =>
         /\ frame.current_page = 0
         /\ session_state["current_place_page"] = 0
    /\ HasResults(session_state) =>
         LET places == session_state["search_results"]
         IN  /\ PreviousPage(0) = 0
             /\ NextPage(Len(places), Len(places) - 1) = Len(places) - 1
             /\ \A stored \in 0..(MaxPlaces + 1) :
                  PageState(DictSet(session_state, "current_place_page", stored),
                            places)["current_place_page"]
                    = IF stored >= Len(places) THEN 0 ELSE stored

\* the last of three places is shown after the clicks on Next, its Next
\* button disabled
C23_Witness ==
  /\ call = "live_search_mode"
  /\ pc = "idle"
  /\ event = "none"
  /\ frame # <<>>
  /\ frame.total_places = 3
  /\ frame.current_page = 2
  /\ frame.next_disabled
  /\ ~frame.prev_disabled
  /\ session_state["current_place_page"] = 2

====
